---- MODULE Spec2Model ----
(***************************************************************************)
(* Model of app.py: the receipt OCR service.                                *)
(*                                                                         *)
(* A text (a Python str) is a sequence of one-character strings, so that   *)
(* the regular expressions of parse_receipt_text, str.strip, str.upper and *)
(* str.splitlines are computed character by character.  Short fixed        *)
(* messages (exception texts, response details) are TLA+ strings, joined   *)
(* with \o the way the f-string of the handler joins them.                 *)
(***************************************************************************)
EXTENDS Integers, Sequences, FiniteSets, TLC

VARIABLES pc, request, file, steps, text, info, exc, response

vars == <<pc, request, file, steps, text, info, exc, response>>

(***************************************************************************)
(* Bounds of the model                                                     *)
(***************************************************************************)
\* parse_receipt_text is applied to the concatenations of at most MaxTokens
\* vocabulary tokens
MaxTokens == 3

\* the recognition engine of a whole request returns a concatenation of at
\* most MaxOcrTokens vocabulary tokens
MaxOcrTokens == 2

(***************************************************************************)
(* Characters                                                              *)
(***************************************************************************)
Digits == {"0", "1", "2", "3", "4", "5", "6", "7", "8", "9"}

LowerCase == <<"a", "b", "c", "d", "e", "f", "g", "h", "i", "j", "k", "l", "m",
               "n", "o", "p", "q", "r", "s", "t", "u", "v", "w", "x", "y", "z">>

UpperCase == <<"A", "B", "C", "D", "E", "F", "G", "H", "I", "J", "K", "L", "M",
               "N", "O", "P", "Q", "R", "S", "T", "U", "V", "W", "X", "Y", "Z">>

Range(f) == {f[i] : i \in DOMAIN f}

\* \w of the re module
WordChars == Range(LowerCase) \cup Range(UpperCase) \cup Digits \cup {"_"}

\* \s of the re module, and the characters str.strip() removes
WhiteSpace == {" ", "\t", "\n", "\r", "\f"}

\* the line boundaries of str.splitlines()
LineBreaks == {"\n", "\r", "\f"}

\* (\$|₹|€)
CurrencySymbols == {"$", "₹", "€"}

\* the character at position i of s (1-based), "" outside the text
CharAt(s, i) == IF i \in 1..Len(s) THEN s[i] ELSE ""

IsDigit(c) == c \in Digits

IsWord(c) == c \in WordChars

\* str.upper() on one character
UpperChar(c) ==
    IF \E k \in DOMAIN LowerCase : LowerCase[k] = c
    THEN UpperCase[CHOOSE k \in DOMAIN LowerCase : LowerCase[k] = c]
    ELSE c

\* str.upper()
Upper(s) == [i \in 1..Len(s) |-> UpperChar(s[i])]

\* the number of leading whitespace characters of s
RECURSIVE LeadingSpace(_)
LeadingSpace(s) ==
    IF s # <<>> /\ Head(s) \in WhiteSpace THEN 1 + LeadingSpace(Tail(s)) ELSE 0

\* the number of trailing whitespace characters of s
RECURSIVE TrailingSpace(_)
TrailingSpace(s) ==
    IF s # <<>> /\ s[Len(s)] \in WhiteSpace
    THEN 1 + TrailingSpace(SubSeq(s, 1, Len(s) - 1))
    ELSE 0

\* str.strip()
Strip(s) ==
    IF LeadingSpace(s) = Len(s) THEN <<>>
    ELSE SubSeq(s, LeadingSpace(s) + 1, Len(s) - TrailingSpace(s))

\* str.startswith(prefix)
StartsWith(s, prefix) ==
    /\ Len(s) >= Len(prefix)
    /\ SubSeq(s, 1, Len(prefix)) = prefix

(***************************************************************************)
(* Regular expressions of parse_receipt_text                               *)
(*                                                                         *)
(* A matcher M(s, i) gives the position of the last character of the match *)
(* of the pattern that starts at position i of s, or 0 when the pattern    *)
(* does not match there.                                                   *)
(***************************************************************************)
\* \d+ from position i: the length of the run of digits that starts at i
RECURSIVE DigitRun(_, _)
DigitRun(s, i) ==
    IF IsDigit(CharAt(s, i)) THEN 1 + DigitRun(s, i + 1) ELSE 0

\* \b at position p: between the characters p - 1 and p
WordBoundary(s, p) == IsWord(CharAt(s, p - 1)) # IsWord(CharAt(s, p))

\* CurrencyMatchEnd gone wrong: the pattern (\$|₹|€)\s?(\d+), decimals forgotten
CurrencyMatchEnd_NoDecimals(s, i) ==
    IF CharAt(s, i) \notin CurrencySymbols THEN 0
    ELSE LET d == IF CharAt(s, i + 1) \in WhiteSpace THEN i + 2 ELSE i + 1
             n == DigitRun(s, d)
         IN  IF n = 0 THEN 0 ELSE d + n - 1

\* (\$|₹|€)\s?(\d+(?:\.\d{1,2})?) at position i
CurrencyMatchEnd(s, i) ==
    IF CharAt(s, i) \notin CurrencySymbols THEN 0
    ELSE LET d == IF CharAt(s, i + 1) \in WhiteSpace THEN i + 2 ELSE i + 1
             n == DigitRun(s, d)
             e == d + n
             k == DigitRun(s, e + 1)
             f == IF CharAt(s, e) = "." THEN (IF k > 2 THEN 2 ELSE k) ELSE 0
         IN  IF n = 0 THEN 0
             ELSE IF f > 0 THEN e + f ELSE e - 1

\* FallbackMatchEnd gone wrong: the pattern \d{1,5}\.\d{2}\b, leading \b forgotten
FallbackMatchEnd_NoLeadingBoundary(s, i) ==
    IF \E n \in 1..5 :
          /\ \A j \in i..(i + n - 1) : IsDigit(CharAt(s, j))
          /\ CharAt(s, i + n) = "."
          /\ IsDigit(CharAt(s, i + n + 1))
          /\ IsDigit(CharAt(s, i + n + 2))
          /\ WordBoundary(s, i + n + 3)
    THEN LET n == CHOOSE n \in 1..5 :
                     /\ \A j \in i..(i + n - 1) : IsDigit(CharAt(s, j))
                     /\ CharAt(s, i + n) = "."
                     /\ IsDigit(CharAt(s, i + n + 1))
                     /\ IsDigit(CharAt(s, i + n + 2))
                     /\ WordBoundary(s, i + n + 3)
         IN  i + n + 2
    ELSE 0

\* \b\d{1,5}\.\d{2}\b at position i.  The digits before the point are the
\* whole run of digits at i: a shorter prefix of the run is followed by a
\* digit, not by the point.
FallbackMatchEnd(s, i) ==
    LET n == DigitRun(s, i)
    IN  IF /\ n \in 1..5
           /\ WordBoundary(s, i)
           /\ CharAt(s, i + n) = "."
           /\ IsDigit(CharAt(s, i + n + 1))
           /\ IsDigit(CharAt(s, i + n + 2))
           /\ WordBoundary(s, i + n + 3)
        THEN i + n + 2
        ELSE 0

\* \d{a}[/-]\d{b}[/-]\d{c} at position i
DatePatternEnd(s, i, a, b, c) ==
    IF /\ \A j \in i..(i + a - 1) : IsDigit(CharAt(s, j))
       /\ CharAt(s, i + a) \in {"/", "-"}
       /\ \A j \in (i + a + 1)..(i + a + b) : IsDigit(CharAt(s, j))
       /\ CharAt(s, i + a + b + 1) \in {"/", "-"}
       /\ \A j \in (i + a + b + 2)..(i + a + b + c + 1) : IsDigit(CharAt(s, j))
    THEN i + a + b + c + 1
    ELSE 0

\* DayFirstMatchEnd gone wrong: the separator class [/-] narrowed to /
DayFirstMatchEnd_SlashOnly(s, i) ==
    IF CharAt(s, i + 2) = "/" /\ CharAt(s, i + 5) = "/"
    THEN DatePatternEnd(s, i, 2, 2, 4)
    ELSE 0

\* (\d{2}[/-]\d{2}[/-]\d{4}) at position i
DayFirstMatchEnd(s, i) == DatePatternEnd(s, i, 2, 2, 4)

\* (\d{4}[/-]\d{2}[/-]\d{2}) at position i
YearFirstMatchEnd(s, i) == DatePatternEnd(s, i, 4, 2, 2)

\* the result of re.search when nothing matches
NoMatch == <<>>

\* the compiled patterns, by name
MatchEnd(pattern, s, i) ==
    CASE pattern = "currency" -> CurrencyMatchEnd(s, i)
      [] pattern = "fallback" -> FallbackMatchEnd(s, i)
      [] pattern = "day_first" -> DayFirstMatchEnd(s, i)
      [] pattern = "year_first" -> YearFirstMatchEnd(s, i)

\* the scan of re.search from position i on: the first position at which
\* the pattern matches, as <<first, last>>, or NoMatch
RECURSIVE SearchFrom(_, _, _)
SearchFrom(pattern, s, i) ==
    IF i > Len(s) THEN NoMatch
    ELSE IF MatchEnd(pattern, s, i) # 0 THEN <<i, MatchEnd(pattern, s, i)>>
         ELSE SearchFrom(pattern, s, i + 1)

\* re.search(pattern, s): the leftmost match
Search(pattern, s) == SearchFrom(pattern, s, 1)

\* match.group()
Group(s, m) == SubSeq(s, m[1], m[2])

(***************************************************************************)
(* parse_receipt_text                                                      *)
(***************************************************************************)
\* result = {}
EmptyDict == [k \in {} |-> <<>>]

\* AmountPart gone wrong: the bare decimal number is searched first
AmountPart_FallbackFirst(s) ==
    LET fallback_amount == Search("fallback", s)
        amount_match == Search("currency", s)
    IN  IF fallback_amount # NoMatch
        THEN "amount" :> Group(s, fallback_amount)
        ELSE IF amount_match # NoMatch
             THEN "amount" :> Group(s, amount_match)
             ELSE EmptyDict

\* the amount key of the result
AmountPart(s) ==
    LET amount_match == Search("currency", s)
        fallback_amount == Search("fallback", s)
    IN  IF amount_match # NoMatch
        THEN "amount" :> Group(s, amount_match)
        ELSE IF fallback_amount # NoMatch
             THEN "amount" :> Group(s, fallback_amount)
             ELSE EmptyDict

\* DatePart gone wrong: the year-first pattern is searched first
DatePart_YearFirstPreferred(s) ==
    LET year == Search("year_first", s)
        date_match == IF year = NoMatch THEN Search("day_first", s) ELSE year
    IN  IF date_match # NoMatch THEN "date" :> Group(s, date_match) ELSE EmptyDict

\* the date key of the result
DatePart(s) ==
    LET first == Search("day_first", s)
        date_match == IF first = NoMatch THEN Search("year_first", s) ELSE first
    IN  IF date_match # NoMatch THEN "date" :> Group(s, date_match) ELSE EmptyDict

\* str.splitlines() from position i on, cur being the line read so far
RECURSIVE SplitFrom(_, _, _)
SplitFrom(s, i, cur) ==
    IF i > Len(s) THEN (IF cur = <<>> THEN <<>> ELSE <<cur>>)
    ELSE IF s[i] \in LineBreaks
         THEN LET skip == IF s[i] = "\r" /\ CharAt(s, i + 1) = "\n" THEN 2 ELSE 1
              IN  <<cur>> \o SplitFrom(s, i + skip, <<>>)
         ELSE SplitFrom(s, i + 1, Append(cur, s[i]))

\* str.splitlines()
SplitLines(s) == SplitFrom(s, 1, <<>>)

\* [f(x) for x in xs if p(x)] for f = strip and p = "the stripped line is not empty"
RECURSIVE StrippedNonEmpty(_)
StrippedNonEmpty(ls) ==
    IF ls = <<>> THEN <<>>
    ELSE IF Strip(Head(ls)) # <<>>
         THEN <<Strip(Head(ls))>> \o StrippedNonEmpty(Tail(ls))
         ELSE StrippedNonEmpty(Tail(ls))

\* the same comprehension with the strip of the kept lines forgotten
RECURSIVE UnstrippedNonEmpty(_)
UnstrippedNonEmpty(ls) ==
    IF ls = <<>> THEN <<>>
    ELSE IF Strip(Head(ls)) # <<>>
         THEN <<Head(ls)>> \o UnstrippedNonEmpty(Tail(ls))
         ELSE UnstrippedNonEmpty(Tail(ls))

\* Lines gone wrong: [line for line in text.splitlines() if line.strip()]
Lines_NotStripped(s) == UnstrippedNonEmpty(SplitLines(s))

\* lines = [line.strip() for line in text.splitlines() if line.strip()]
Lines(s) == StrippedNonEmpty(SplitLines(s))

\* RESTAURANT|STORE|HOTEL|CAFE|MART|SHOP|COMPANY
Keywords ==
    { <<"R", "E", "S", "T", "A", "U", "R", "A", "N", "T">>,
      <<"S", "T", "O", "R", "E">>,
      <<"H", "O", "T", "E", "L">>,
      <<"C", "A", "F", "E">>,
      <<"M", "A", "R", "T">>,
      <<"S", "H", "O", "P">>,
      <<"C", "O", "M", "P", "A", "N", "Y">> }

\* the keyword alternation at position i
KeywordMatchEnd(s, i) ==
    IF \E w \in Keywords : i + Len(w) - 1 <= Len(s) /\ SubSeq(s, i, i + Len(w) - 1) = w
    THEN i + Len(CHOOSE w \in Keywords :
                    i + Len(w) - 1 <= Len(s) /\ SubSeq(s, i, i + Len(w) - 1) = w) - 1
    ELSE 0

\* HasKeyword gone wrong: the line is searched as written, upper() forgotten
HasKeyword_CaseSensitive(line) ==
    \E i \in 1..Len(line) : KeywordMatchEnd(line, i) # 0

\* re.search(r'(RESTAURANT|...|COMPANY)', line.upper())
HasKeyword(line) ==
    LET upper == Upper(line)
    IN  \E i \in 1..Len(upper) : KeywordMatchEnd(upper, i) # 0

\* the for loop over lines from index i on: the first line with a keyword
\* replaces the candidate and ends the loop
RECURSIVE ScanLines(_, _, _)
ScanLines(lines, i, possible_merchant) ==
    IF i > Len(lines) THEN possible_merchant
    ELSE IF HasKeyword(lines[i]) THEN lines[i]
         ELSE ScanLines(lines, i + 1, possible_merchant)

\* the merchant key of the result
MerchantPart(s) ==
    LET lines == Lines(s)
    IN  IF lines # <<>>
        THEN "merchant" :> ScanLines(lines, 1, lines[1])
        ELSE EmptyDict

\* parse_receipt_text(text)
parse_receipt_text(s) == AmountPart(s) @@ DatePart(s) @@ MerchantPart(s)

(***************************************************************************)
(* Inputs                                                                  *)
(***************************************************************************)
\* file.content_type of an upload whose part declares no content type
None == <<"None">>

ContentTypes ==
    { <<"i", "m", "a", "g", "e", "/", "p", "n", "g">>,
      <<"i", "m", "a", "g", "e", "/", "j", "p", "e", "g">>,
      <<"i", "m", "a", "g", "e", "x", "/", "p", "n", "g">>,
      <<"t", "e", "x", "t", "/", "p", "l", "a", "i", "n">>,
      <<"a", "p", "p", "l", "i", "c", "a", "t", "i", "o", "n", "/", "p", "d", "f">>,
      None }

\* an upload: its declared name and content type, and whether its bytes are an
\* image that Image.open can decode
Files ==
    [filename : {"receipt.png", "notes.txt"},
     content_type : ContentTypes,
     decodable : BOOLEAN]

NoFile == [filename |-> "", content_type |-> None, decodable |-> FALSE]

\* the pieces recognised texts are made of
Vocabulary ==
    { <<"$", "1", "2", ".", "3", "4">>,
      <<"€", " ", "5">>,
      <<"1", "2", "3", ".", "4", "5">>,
      <<"1", ".", "0", "0">>,
      <<"1", "2", "/", "0", "5", "/", "2", "0", "2", "4">>,
      <<"3", "1", "-", "0", "1", "-", "1", "9", "9", "9">>,
      <<"2", "0", "2", "4", "-", "0", "5", "-", "1", "2">>,
      <<"S", "T", "O", "R", "E">>,
      <<"C", "a", "f", "e">>,
      <<"x">>,
      <<" ">>,
      <<"\n">> }

\* the concatenations of at most n tokens
RECURSIVE TokenTexts(_)
TokenTexts(n) ==
    IF n = 0 THEN {<<>>}
    ELSE LET shorter == TokenTexts(n - 1)
         IN  shorter \cup {p \o t : p \in shorter, t \in Vocabulary}

\* receipts written out in full
SampleTexts ==
    { <<"J", "o", "e", "'", "s", " ", "D", "e", "l", "i", "\n",
        "T", "h", "a", "n", "k", " ", "y", "o", "u", "\n",
        "S", "T", "O", "R", "E", " ", "#", "4">>,
      <<"x", "1", ".", "0", "0", " ", "1", "2", "3", ".", "4", "5">>,
      <<"\t", "T", "o", "t", "a", "l", ":", " ", "₹", "2", "5", "0", ".", "5", "\r", "\n">>,
      <<"1", "2", "3", "4", "5", "6", ".", "7", "8">>,
      <<"$", "5", " ", "$", "1", "2", ".", "3", "4">> }

\* the texts parse_receipt_text is applied to
Texts == TokenTexts(MaxTokens) \cup SampleTexts

\* what pytesseract.image_to_string returns in a whole request
OcrTexts == TokenTexts(MaxOcrTokens) \cup SampleTexts

(***************************************************************************)
(* Exceptions and responses                                                *)
(***************************************************************************)
NoException == [type |-> "None", status_code |-> 0, msg |-> ""]

\* HTTPException(status_code=..., detail=...)
HTTPException(status_code, detail) ==
    [type |-> "HTTPException", status_code |-> status_code, msg |-> detail]

\* any other exception, with its message
Error(type, msg) == [type |-> type, status_code |-> 0, msg |-> msg]

\* what the collaborators raise: Image.open, cv2, pytesseract
DecodeError == Error("UnidentifiedImageError", "cannot identify image file")

PreprocessErrors == {Error("cv2.error", "OpenCV: insufficient memory")}

OcrErrors ==
    { Error("TesseractNotFoundError", "tesseract is not installed or it's not in your PATH"),
      Error("TesseractError", "Failed loading language 'eng'") }

\* StrOf gone wrong: the exception's class name instead of its message
StrOf_TypeName(e) == e.type

\* str(e): Starlette prints an HTTPException as "<status_code>: <detail>"
StrOf(e) ==
    IF e.type = "HTTPException"
    THEN ToString(e.status_code) \o ": " \o e.msg
    ELSE e.msg

NoResponse == [status |-> 0, detail |-> "", body |-> EmptyDict]

\* the response FastAPI makes of a returned value
Ok(body) == [status |-> 200, detail |-> "", body |-> body]

\* the response FastAPI makes of an HTTPException that leaves the handler
Failed(e) == [status |-> e.status_code, detail |-> e.msg, body |-> EmptyDict]

\* IsImage gone wrong: the prefix tested is "image", the slash forgotten
IsImage_NoSlash(content_type) ==
    StartsWith(content_type, <<"i", "m", "a", "g", "e">>)

\* file.content_type.startswith("image/")
IsImage(content_type) ==
    StartsWith(content_type, <<"i", "m", "a", "g", "e", "/">>)

(***************************************************************************)
(* The endpoints                                                           *)
(***************************************************************************)
Init ==
    /\ pc = "idle"
    /\ request = "none"
    /\ file = NoFile
    /\ steps = <<>>
    /\ text = <<>>
    /\ info = EmptyDict
    /\ exc = NoException
    /\ response = NoResponse

\* GET /
root ==
    /\ pc = "idle"
    /\ request' = "root"
    /\ response' = Ok([message |-> "Welcome to the Enhanced Tesseract OCR API"])
    /\ pc' = "done"
    /\ UNCHANGED <<file, steps, text, info, exc>>

\* GET /health
health_check ==
    /\ pc = "idle"
    /\ request' = "health"
    /\ response' = Ok([status |-> "ok",
                       message |-> "Enhanced OCR API is running smoothly"])
    /\ pc' = "done"
    /\ UNCHANGED <<file, steps, text, info, exc>>

\* POST /extract-receipt arrives with an upload
extract_receipt(f) ==
    /\ pc = "idle"
    /\ request' = "extract"
    /\ file' = f
    /\ pc' = "validate"
    /\ UNCHANGED <<steps, text, info, exc, response>>

\* a statement of the try block raises e: control goes to the except clause
Raise(e) ==
    /\ exc' = e
    /\ pc' = "except"

\* if not file.content_type.startswith("image/"): raise HTTPException(400, ...)
Validate ==
    /\ pc = "validate"
    /\ IF file.content_type = None
       THEN Raise(Error("AttributeError",
                        "'NoneType' object has no attribute 'startswith'"))
       ELSE IF ~IsImage(file.content_type)
            THEN Raise(HTTPException(400,
                        "Please upload a valid image file (jpg, png, etc.)"))
            ELSE pc' = "read" /\ exc' = exc
    /\ UNCHANGED <<request, file, steps, text, info, response>>

\* image_bytes = await file.read()
Read ==
    /\ pc = "read"
    /\ steps' = Append(steps, "read")
    /\ pc' = "decode"
    /\ UNCHANGED <<request, file, text, info, exc, response>>

\* image = Image.open(io.BytesIO(image_bytes)).convert("RGB")
Decode ==
    /\ pc = "decode"
    /\ steps' = Append(steps, "decode")
    /\ IF file.decodable
       THEN pc' = "preprocess" /\ exc' = exc
       ELSE Raise(DecodeError)
    /\ UNCHANGED <<request, file, text, info, response>>

\* processed_image = preprocess_image(image)
Preprocess ==
    /\ pc = "preprocess"
    /\ steps' = Append(steps, "preprocess")
    /\ \/ pc' = "ocr" /\ exc' = exc
       \/ \E e \in PreprocessErrors : Raise(e)
    /\ UNCHANGED <<request, file, text, info, response>>

\* text = pytesseract.image_to_string(processed_image, lang="eng")
Ocr ==
    /\ pc = "ocr"
    /\ steps' = Append(steps, "ocr")
    /\ \/ \E t \in OcrTexts : text' = t /\ pc' = "parse" /\ exc' = exc
       \/ \E e \in OcrErrors : Raise(e) /\ text' = text
    /\ UNCHANGED <<request, file, info, response>>

\* info = parse_receipt_text(text)
Parse ==
    /\ pc = "parse"
    /\ steps' = Append(steps, "parse")
    /\ info' = parse_receipt_text(text)
    /\ pc' = "return"
    /\ UNCHANGED <<request, file, text, exc, response>>

\* return {"filename": ..., "extracted_text": text.strip(), "structured_data": info}
Return ==
    /\ pc = "return"
    /\ response' = Ok([filename |-> file.filename,
                       extracted_text |-> Strip(text),
                       structured_data |-> info])
    /\ pc' = "done"
    /\ UNCHANGED <<request, file, steps, text, info, exc>>

\* except Exception as e:
\*     raise HTTPException(status_code=500, detail=f"OCR processing failed: {str(e)}")
Except ==
    /\ pc = "except"
    /\ response' = Failed(HTTPException(500, "OCR processing failed: " \o StrOf(exc)))
    /\ pc' = "done"
    /\ UNCHANGED <<request, file, steps, text, info, exc>>

Next ==
    \/ root
    \/ health_check
    \/ \E f \in Files : extract_receipt(f)
    \/ Validate
    \/ Read
    \/ Decode
    \/ Preprocess
    \/ Ocr
    \/ Parse
    \/ Return
    \/ Except

Spec == Init /\ [][Next]_vars

(***************************************************************************)
(* The handler from the recognised text on: the upload decoded, the engine *)
(* returned a text, and the handler extracts the fields and returns.       *)
(***************************************************************************)
InitParse ==
    /\ pc = "parse"
    /\ request = "extract"
    /\ file = [filename |-> "receipt.png",
               content_type |-> <<"i", "m", "a", "g", "e", "/", "p", "n", "g">>,
               decodable |-> TRUE]
    /\ steps = <<"read", "decode", "preprocess", "ocr">>
    /\ text \in Texts
    /\ info = EmptyDict
    /\ exc = NoException
    /\ response = NoResponse

NextParse ==
    \/ Parse
    \/ Return

SpecParse == InitParse /\ [][NextParse]_vars

(***************************************************************************)
(* Vocabulary of the properties, stated on the text itself and not through *)
(* the matchers above.                                                     *)
(***************************************************************************)
\* sub occurs in s at position i
OccursAt(s, sub, i) ==
    /\ i >= 1
    /\ i + Len(sub) - 1 <= Len(s)
    /\ \A k \in 1..Len(sub) : s[i + k - 1] = sub[k]

Contains(s, sub) == \E i \in 1..Len(s) : OccursAt(s, sub, i)

\* the position of the first occurrence of sub in s
FirstIndex(s, sub) ==
    CHOOSE i \in 1..Len(s) :
        OccursAt(s, sub, i) /\ \A j \in 1..(i - 1) : ~OccursAt(s, sub, j)

\* a currency-prefixed amount begins at i: symbol, optional whitespace, digit
CurrencyAmountAt(s, i) ==
    /\ CharAt(s, i) \in CurrencySymbols
    /\ \/ CharAt(s, i + 1) \in Digits
       \/ CharAt(s, i + 1) \in WhiteSpace /\ CharAt(s, i + 2) \in Digits

\* no word character on either side of the n characters that begin at i
Delimited(s, i, n) ==
    /\ CharAt(s, i - 1) \notin WordChars
    /\ CharAt(s, i + n) \notin WordChars

\* a bare decimal begins at i: 1 to 5 digits, a point, exactly 2 digits, delimited
BareDecimalAt(s, i) ==
    \E n \in 1..5 :
        /\ \A j \in i..(i + n - 1) : CharAt(s, j) \in Digits
        /\ CharAt(s, i + n) = "."
        /\ CharAt(s, i + n + 1) \in Digits
        /\ CharAt(s, i + n + 2) \in Digits
        /\ Delimited(s, i, n + 3)

\* a day-first date begins at i: dd, separator, dd, separator, dddd
DayFirstAt(s, i) ==
    /\ \A j \in {i, i + 1, i + 3, i + 4, i + 6, i + 7, i + 8, i + 9} :
          CharAt(s, j) \in Digits
    /\ \A j \in {i + 2, i + 5} : CharAt(s, j) \in {"/", "-"}

\* a year-first date begins at i: dddd, separator, dd, separator, dd
YearFirstAt(s, i) ==
    /\ \A j \in {i, i + 1, i + 2, i + 3, i + 5, i + 6, i + 8, i + 9} :
          CharAt(s, j) \in Digits
    /\ \A j \in {i + 4, i + 7} : CharAt(s, j) \in {"/", "-"}

\* the least position of s at which P holds
Leftmost(s, P(_, _)) ==
    CHOOSE i \in 1..Len(s) : P(s, i) /\ \A j \in 1..(i - 1) : ~P(s, j)

\* the line contains one of the keywords, compared without regard to case
ContainsKeyword(line) ==
    LET upper == Upper(line)
    IN  \E w \in Keywords : Contains(upper, w)

\* the key k of the structured record is present with value v
Has(d, k, v) == k \in DOMAIN d /\ d[k] = v

\* parse_receipt_text has returned and info holds its result for text
Parsed == pc = "return"

\* the declared content type begins with "image/"
DeclaredImage(ct) ==
    /\ ct # None
    /\ Len(ct) >= 6
    /\ <<ct[1], ct[2], ct[3], ct[4], ct[5], ct[6]>> = <<"i", "m", "a", "g", "e", "/">>

Dollar1234 == <<"$", "1", "2", ".", "3", "4">>

Bare12345 == <<"1", "2", "3", ".", "4", "5">>

Date12052024 == <<"1", "2", "/", "0", "5", "/", "2", "0", "2", "4">>

JoesDeli ==
    <<"J", "o", "e", "'", "s", " ", "D", "e", "l", "i", "\n",
      "T", "h", "a", "n", "k", " ", "y", "o", "u", "\n",
      "S", "T", "O", "R", "E", " ", "#", "4">>

(***************************************************************************)
(* The request handler                                                     *)
(***************************************************************************)
\* C1: a POST /extract-receipt whose declared content type does not begin
\* with "image/" is answered with a client error (a 4xx status).
C1_ClientError ==
    ( /\ pc = "done"
      /\ request = "extract"
      /\ file.content_type # None
      /\ ~DeclaredImage(file.content_type) )
        => response.status \in 400..499

\* C2: a POST /extract-receipt whose declared content type does not begin
\* with "image/" never reads the upload, decodes, preprocesses, recognises or
\* extracts, and ends in an error response.
C2_NoProcessing ==
    (request = "extract" /\ ~DeclaredImage(file.content_type))
        => /\ steps = <<>>
           /\ text = <<>>
           /\ info = EmptyDict
           /\ pc \in {"validate", "except", "done"}
           /\ pc = "done" => (response.status >= 400 /\ DOMAIN response.body = {})

C2_Witness ==
    /\ pc = "done"
    /\ request = "extract"
    /\ file.content_type = <<"t", "e", "x", "t", "/", "p", "l", "a", "i", "n">>
    /\ response.status >= 400
    /\ steps = <<>>

\* the stage an exception of the collaborators comes from
StageOf(e) ==
    CASE e = DecodeError -> "decode"
      [] e \in PreprocessErrors -> "preprocess"
      [] e \in OcrErrors -> "ocr"
      [] OTHER -> "none"

\* C3: with an image content type, a failure raised by a stage ends the
\* request in a 500 whose detail carries the failure's message; no success
\* record is returned, no stage runs twice or after the failure, and the
\* response has the same form whichever stage failed.
C3_ServerError ==
    (request = "extract" /\ DeclaredImage(file.content_type) /\ exc # NoException)
        => /\ pc \in {"except", "done"}
           /\ response.status # 200
           /\ steps # <<>>
           /\ steps[Len(steps)] = StageOf(exc)
           /\ \A i, j \in 1..Len(steps) : steps[i] = steps[j] => i = j
           /\ pc = "done" =>
                /\ response.status = 500
                /\ response.detail = "OCR processing failed: " \o exc.msg
                /\ DOMAIN response.body = {}

C3_Witness ==
    /\ pc = "done"
    /\ request = "extract"
    /\ DeclaredImage(file.content_type)
    /\ exc \in OcrErrors
    /\ response.status = 500
    /\ steps = <<"read", "decode", "preprocess", "ocr">>

(***************************************************************************)
(* parse_receipt_text                                                      *)
(***************************************************************************)
\* C4 as stated: for any text that contains "$12.34" the amount is "$12.34".
C4_Original ==
    (Parsed /\ Contains(text, Dollar1234)) => Has(info, "amount", Dollar1234)

\* C4, amended: for any text that contains "$12.34" and in which no
\* currency-prefixed amount begins before the first "$12.34", the amount is
\* "$12.34".
C4_FirstCurrencyAmount ==
    ( /\ Parsed
      /\ Contains(text, Dollar1234)
      /\ \A j \in 1..(FirstIndex(text, Dollar1234) - 1) : ~CurrencyAmountAt(text, j) )
        => Has(info, "amount", Dollar1234)

C4_Witness ==
    /\ Parsed
    /\ Contains(text, Dollar1234)
    /\ FirstIndex(text, Dollar1234) > 1
    /\ Len(text) > FirstIndex(text, Dollar1234) + 5
    /\ \A j \in 1..(FirstIndex(text, Dollar1234) - 1) : ~CurrencyAmountAt(text, j)
    /\ Has(info, "amount", Dollar1234)

\* C5 as stated: for any text that contains a word-delimited "123.45" and no
\* currency symbol, the amount is "123.45".
C5_Original ==
    ( /\ Parsed
      /\ \E i \in 1..Len(text) : OccursAt(text, Bare12345, i) /\ Delimited(text, i, 6)
      /\ \A i \in 1..Len(text) : text[i] \notin CurrencySymbols )
        => Has(info, "amount", Bare12345)

\* C5, amended: for any text that contains a word-delimited "123.45", no
\* currency symbol, and no bare decimal of the fallback pattern that begins
\* before that "123.45", the amount is "123.45".
C5_FirstBareDecimal ==
    ( /\ Parsed
      /\ \E i \in 1..Len(text) :
            /\ OccursAt(text, Bare12345, i)
            /\ Delimited(text, i, 6)
            /\ \A j \in 1..(i - 1) : ~BareDecimalAt(text, j)
      /\ \A i \in 1..Len(text) : text[i] \notin CurrencySymbols )
        => Has(info, "amount", Bare12345)

C5_Witness ==
    /\ Parsed
    /\ \E i \in 2..Len(text) :
          /\ OccursAt(text, Bare12345, i)
          /\ Delimited(text, i, 6)
          /\ \A j \in 1..(i - 1) : ~BareDecimalAt(text, j)
    /\ \A i \in 1..Len(text) : text[i] \notin CurrencySymbols
    /\ Has(info, "amount", Bare12345)

\* C6: when the text has a currency-prefixed amount, the amount is the
\* leftmost such match, symbol included, whether a bare decimal comes before
\* or after it; an amount without a currency symbol is returned only when
\* the text has no currency-prefixed amount at all.
C6_CurrencyPrecedence ==
    Parsed =>
        /\ (\E i \in 1..Len(text) : CurrencyAmountAt(text, i))
              => /\ "amount" \in DOMAIN info
                 /\ info["amount"][1] \in CurrencySymbols
                 /\ OccursAt(text, info["amount"], Leftmost(text, CurrencyAmountAt))
        /\ ("amount" \in DOMAIN info /\ info["amount"][1] \notin CurrencySymbols)
              => ~\E i \in 1..Len(text) : CurrencyAmountAt(text, i)

C6_Witness ==
    /\ Parsed
    /\ \E i, j \in 1..Len(text) :
          i < j /\ BareDecimalAt(text, i) /\ CurrencyAmountAt(text, j)
    /\ "amount" \in DOMAIN info
    /\ info["amount"][1] \in CurrencySymbols

\* C7 as stated: for any text that contains "12/05/2024" the date is
\* "12/05/2024", whatever date-like substrings come before or after it.
C7_Original ==
    (Parsed /\ Contains(text, Date12052024)) => Has(info, "date", Date12052024)

\* C7, amended: for any text that contains "12/05/2024" and in which no
\* day-first date begins before the first "12/05/2024", the date is
\* "12/05/2024".
C7_FirstDayFirstDate ==
    ( /\ Parsed
      /\ Contains(text, Date12052024)
      /\ \A j \in 1..(FirstIndex(text, Date12052024) - 1) : ~DayFirstAt(text, j) )
        => Has(info, "date", Date12052024)

C7_Witness ==
    /\ Parsed
    /\ Contains(text, Date12052024)
    /\ \E j \in 1..(FirstIndex(text, Date12052024) - 1) : YearFirstAt(text, j)
    /\ \A j \in 1..(FirstIndex(text, Date12052024) - 1) : ~DayFirstAt(text, j)
    /\ \E j \in (FirstIndex(text, Date12052024) + 1)..Len(text) : DayFirstAt(text, j)
    /\ Has(info, "date", Date12052024)

\* C8: the merchant key is present exactly when some line is non-empty after
\* trimming; it is then the first trimmed line that contains a keyword,
\* case-insensitively, or the first non-empty trimmed line when no line
\* contains one.  For Joe's Deli / Thank you / STORE #4 it is "STORE #4".
C8_Merchant ==
    Parsed =>
        LET lines == Lines(text)
            hits == {k \in 1..Len(lines) : ContainsKeyword(lines[k])}
        IN  /\ "merchant" \in DOMAIN info
                <=> \E i \in 1..Len(text) : text[i] \notin WhiteSpace
            /\ "merchant" \in DOMAIN info
                => /\ lines # <<>>
                   /\ hits # {} =>
                        info["merchant"] =
                            lines[CHOOSE k \in hits : \A h \in hits : k <= h]
                   /\ hits = {} => info["merchant"] = lines[1]
            /\ text = JoesDeli
                => Has(info, "merchant", <<"S", "T", "O", "R", "E", " ", "#", "4">>)

C8_Witness ==
    /\ Parsed
    /\ Len(Lines(text)) >= 2
    /\ ~ContainsKeyword(Lines(text)[1])
    /\ \E k \in 2..Len(Lines(text)) :
          /\ ContainsKeyword(Lines(text)[k])
          /\ ~Contains(Lines(text)[k], <<"S", "T", "O", "R", "E">>)
          /\ \A h \in 1..(k - 1) : ~ContainsKeyword(Lines(text)[h])
          /\ Has(info, "merchant", Lines(text)[k])

\* C9: the date is the leftmost day-first match when the day-first pattern
\* matches anywhere, even after a year-first date; otherwise the leftmost
\* year-first match, verbatim; otherwise the date key is absent.
C9_DateOrder ==
    Parsed =>
        IF \E i \in 1..Len(text) : DayFirstAt(text, i)
        THEN LET i == Leftmost(text, DayFirstAt)
             IN  Has(info, "date", SubSeq(text, i, i + 9))
        ELSE IF \E i \in 1..Len(text) : YearFirstAt(text, i)
             THEN LET i == Leftmost(text, YearFirstAt)
                  IN  Has(info, "date", SubSeq(text, i, i + 9))
             ELSE "date" \notin DOMAIN info

C9_Witness ==
    /\ Parsed
    /\ \E i, j \in 1..Len(text) :
          /\ i < j
          /\ YearFirstAt(text, i)
          /\ DayFirstAt(text, j)
          /\ \A h \in 1..(j - 1) : ~DayFirstAt(text, h)
          /\ Has(info, "date", SubSeq(text, j, j + 9))
          /\ CharAt(text, j + 2) = "-"

\* C10: extraction gives the same record for a text and for the text
\* trimmed, so the structured_data of a success response is what the
\* extractor returns for the extracted_text beside it.
C10_TrimInvariant ==
    /\ Parsed => info = parse_receipt_text(Strip(text))
    /\ (request = "extract" /\ pc = "done" /\ response.status = 200)
          => /\ response.body["extracted_text"] = Strip(text)
             /\ response.body["structured_data"] =
                    parse_receipt_text(response.body["extracted_text"])

C10_Witness ==
    /\ request = "extract"
    /\ pc = "done"
    /\ response.status = 200
    /\ response.body["extracted_text"] # text
    /\ text[1] \in WhiteSpace
    /\ text[Len(text)] \in WhiteSpace
    /\ {"amount", "merchant"} \subseteq DOMAIN response.body["structured_data"]

====
